---- MODULE Spec2Model ----
(***************************************************************************)
(* A model of the aristeia evolutionary-search core:                       *)
(*   src/src/population.rs   the score-indexed Population container        *)
(*   src/src/operations.rs   Selection, rate_to_number and the operators   *)
(*                                                                         *)
(* An agent is represented by its gene content: two agents are the same    *)
(* number exactly when their gene sequences are equal.  A BTreeMap is a    *)
(* function whose DOMAIN is the set of its keys; its iteration order is    *)
(* the ascending order of the keys (SortedKeys).                           *)
(***************************************************************************)
EXTENDS Integers, Sequences, FiniteSets, TLC

\* ------------------------------------------------------------------------
\* Bounds of the model
\* ------------------------------------------------------------------------
NumAgents == 3        \* distinct gene contents an agent can have
MaxSlot == 2          \* slots (scores) range over 0..MaxSlot
MaxStart == 3         \* largest start_size of Population::new
MaxPop == 20          \* largest population size given to rate_to_number
MaxDen == 10          \* rates are the fractions num/den, 1 <= den <= MaxDen
MaxMin == 8           \* largest preferred_minimum given to rate_to_number
MaxSelDen == 3        \* denominators of the proportions of a Selection
MaxSelMin == 1        \* largest preferred_minimum of a Selection
MaxCullDen == 4       \* denominators of the proportions of a cull
ScoreBits == 2        \* width of Score (u64 in the source, scaled down)
MaxOffset == 2        \* largest offset of a ScoreProvider
MaxBatch == 2         \* longest agent list given to evaluate_scores
MaxLevels == 2        \* largest levels of a sequential multi-level evolution
MaxBranch == 3        \* largest sub_populations_per_level of a sequential evolution
MaxInitial == 1       \* largest initial_population_size
MaxThreadLevels == 1  \* largest levels of a threaded evolution
MaxThreads == 2       \* largest sub_populations_per_level of a threaded evolution
MaxMergeBranch == 2   \* largest sub_populations_per_level of a single merge round
MaxMergeSlot == 1     \* largest slot in the populations given to a merge round

Agents == 1..NumAgents
NoAgent == 0          \* Option::None where an Option<Agent> is expected
Slots == 0..MaxSlot
Pending == -1         \* rate_to_number not called yet

\* A rate in [0,1] is the fraction num/den in lowest terms.  For every
\* population <= 30 and every den <= 21 the f64 product
\* (population as f64 * rate) truncates to the same integer as the exact
\* product, so the fraction stands for the f64 nearest to it.
RatesUpTo(d) ==
    {r \in UNION {{[num |-> n, den |-> k] : n \in 0..k} : k \in 1..d} :
        \A j \in 1..(r.den - 1) : (r.num * j) % r.den # 0}
Rates == RatesUpTo(MaxDen)
SelRates == RatesUpTo(MaxSelDen)
CullRates == RatesUpTo(MaxCullDen)
RateLeq(r1, r2) == r1.num * r2.den <= r2.num * r1.den

\* ------------------------------------------------------------------------
\* Agent (agent.rs): the content hash of the gene sequence
\* ------------------------------------------------------------------------
get_hash(agent) == 1000 + 7 * agent

\* ------------------------------------------------------------------------
\* BTreeMap helpers
\* ------------------------------------------------------------------------
EmptyMap == [k \in {} |-> NoAgent]

MapInsert(m, k, v) == [x \in (DOMAIN m) \cup {k} |-> IF x = k THEN v ELSE m[x]]

MapRemove(m, k) == [x \in (DOMAIN m) \ {k} |-> m[x]]

\* BTreeMap::split_off(&key): everything at or after the key
SplitOff(m, k) == [x \in {y \in DOMAIN m : y >= k} |-> m[x]]

Min(S) == CHOOSE x \in S : \A y \in S : x <= y

RECURSIVE SortedSeq(_)
SortedSeq(S) == IF S = {} THEN <<>> ELSE <<Min(S)>> \o SortedSeq(S \ {Min(S)})

\* agents.keys().map(|k| *k).collect(): the keys in ascending order
SortedKeys(m) == SortedSeq(DOMAIN m)

SeqRange(s) == {s[i] : i \in 1..Len(s)}

\* ------------------------------------------------------------------------
\* Population (population.rs)
\* ------------------------------------------------------------------------
new_empty(unique) ==
    [agents |-> EmptyMap, register |-> {}, unique_agents |-> unique]

will_accept(p, agent) ==
    IF p.unique_agents THEN ~(get_hash(agent) \in p.register) ELSE TRUE

contains_score(p, score) == score \in DOMAIN p.agents

get(p, score) == IF score \in DOMAIN p.agents THEN p.agents[score] ELSE NoAgent

get_agents(p) == p.agents

len(p) == Cardinality(DOMAIN p.agents)

get_scores(p) == SortedKeys(p.agents)

insert_always(p, score, agent) ==
    [p EXCEPT !.agents = MapInsert(p.agents, score, agent),
              !.register = IF p.unique_agents
                           THEN p.register \cup {get_hash(agent)}
                           ELSE p.register]

insert_keep_occupant(p, score, agent) ==
    IF score \in DOMAIN p.agents THEN p ELSE insert_always(p, score, agent)

insert(p, score, agent) ==
    IF p.unique_agents /\ get_hash(agent) \in p.register
    THEN p
    ELSE [p EXCEPT !.agents = MapInsert(p.agents, score, agent),
                   !.register = IF p.unique_agents
                                THEN p.register \cup {get_hash(agent)}
                                ELSE p.register]

\* remove returns the pair <<population afterwards, Option<Agent>>>
remove_keep_register(p, score) ==
    <<[p EXCEPT !.agents = MapRemove(p.agents, score)], get(p, score)>>

remove(p, score) ==
    LET agent == get(p, score)
    IN  <<[p EXCEPT !.agents = MapRemove(p.agents, score),
                    !.register = IF p.unique_agents /\ agent # NoAgent
                                 THEN p.register \ {get_hash(agent)}
                                 ELSE p.register],
          agent>>

cull_all_strictly_above(p, score) ==
    LET kept == [x \in {y \in DOMAIN p.agents : y > score} |-> p.agents[x]]
    IN  [p EXCEPT !.agents = kept,
                  !.register = IF p.unique_agents
                               THEN {get_hash(kept[s]) : s \in DOMAIN kept}
                               ELSE p.register]

cull_all_below(p, score) ==
    LET kept == SplitOff(p.agents, score)
    IN  [p EXCEPT !.agents = kept,
                  !.register = IF p.unique_agents
                               THEN {get_hash(kept[s]) : s \in DOMAIN kept}
                               ELSE p.register]

\* The collision fallback of the seeding loop: from the nominal score walk
\* down while the slot is occupied, stopping at 0 at the latest.
RECURSIVE FallbackSlot(_, _)
FallbackSlot_no_floor(p, score) ==
    IF contains_score(p, score) THEN score - 1 ELSE score

FallbackSlot(p, score) ==
    IF score = 0 THEN score
    ELSE IF contains_score(p, score) THEN FallbackSlot(p, score - 1)
    ELSE score

\* Number of times the body of that loop runs
RECURSIVE FallbackIterations(_, _)
FallbackIterations(p, score) ==
    IF score = 0 THEN 1
    ELSE IF contains_score(p, score) THEN 1 + FallbackIterations(p, score - 1)
    ELSE 1

\* ------------------------------------------------------------------------
\* Selection (operations.rs)
\* ------------------------------------------------------------------------
rate_to_number_no_floor(population, rate, preferred_minimum) ==
    IF population < preferred_minimum THEN population
    ELSE (population * rate.num) \div rate.den

rate_to_number(population, rate, preferred_minimum) ==
    IF population < preferred_minimum THEN population
    ELSE LET number == (population * rate.num) \div rate.den
         IN  IF number < preferred_minimum THEN preferred_minimum ELSE number

count(sel, p) == rate_to_number(len(p), sel.proportion, sel.preferred_minimum)

Restrict(m, keys) == [k \in keys \cap DOMAIN m |-> m[k]]

get_highest_drop_number(agents, rate, preferred_minimum) ==
    LET number == rate_to_number(Cardinality(DOMAIN agents), rate, preferred_minimum)
        keys == SortedKeys(agents)
    IN  Restrict(agents, SeqRange(SubSeq(keys, number + 1, Len(keys))))

get_highest_scored_agents(agents, rate, preferred_minimum) ==
    LET number == rate_to_number(Cardinality(DOMAIN agents), rate, preferred_minimum)
        keys == SortedKeys(agents)
        keys_len == Len(keys)
    IN  Restrict(agents, SeqRange(SubSeq(keys, keys_len - number + 1, keys_len)))

get_lowest_scored_agents(agents, rate, preferred_minimum) ==
    LET number == rate_to_number(Cardinality(DOMAIN agents), rate, preferred_minimum)
        keys == SortedKeys(agents)
    IN  Restrict(agents, SeqRange(SubSeq(keys, 1, number)))

\* The subsets get_random_subset can return: one key drawn per iteration,
\* uniformly and with replacement, each inserted into the result map.
get_random_subset(agents, rate, preferred_minimum) ==
    LET number == rate_to_number(Cardinality(DOMAIN agents), rate, preferred_minimum)
        keys == SortedKeys(agents)
    IN  {Restrict(agents, {keys[draws[i]] : i \in 1..number}) :
            draws \in [1..number -> 1..Len(keys)]}

\* ------------------------------------------------------------------------
\* Cull (operations.rs)
\* ------------------------------------------------------------------------
\* Population::cull_all_above is called by cull_agents but is not defined
\* in population.rs; it discards every agent at a slot above the given one
\* and rebuilds the register like cull_all_below.
cull_all_above(p, score) ==
    LET kept == [x \in {y \in DOMAIN p.agents : y <= score} |-> p.agents[x]]
    IN  [p EXCEPT !.agents = kept,
                  !.register = IF p.unique_agents
                               THEN {get_hash(kept[s]) : s \in DOMAIN kept}
                               ELSE p.register]

\* What a call that can panic gives back
Returned(p) == [panicked |-> FALSE, population |-> p]
Panicked(p) == [panicked |-> TRUE, population |-> p]

\* keys[i] of a Vec is element i + 1 of the sequence
cull_agents_random_noop(p, sel) ==
    LET keys == SortedKeys(get_agents(p))
        cull_number == count(sel, p)
    IN  IF cull_number >= Len(keys) THEN Returned(p)
        ELSE CASE sel.selection_type = "LowestScore" ->
                    Returned(cull_all_below(p, keys[cull_number + 1]))
               [] sel.selection_type = "HighestScore" ->
                    Returned(cull_all_above(p, keys[cull_number + 1]))
               [] sel.selection_type = "RandomAny" -> Returned(p)

cull_agents_match_first(p, sel) ==
    LET keys == SortedKeys(get_agents(p))
        cull_number == count(sel, p)
    IN  IF sel.selection_type = "RandomAny" THEN Panicked(p)
        ELSE IF cull_number >= Len(keys) THEN Returned(p)
        ELSE IF sel.selection_type = "LowestScore"
        THEN Returned(cull_all_below(p, keys[cull_number + 1]))
        ELSE Returned(cull_all_above(p, keys[cull_number + 1]))

cull_agents(p, sel) ==
    LET keys == SortedKeys(get_agents(p))
        cull_number == count(sel, p)
    IN  IF cull_number >= Len(keys) THEN Returned(p)
        ELSE CASE sel.selection_type = "LowestScore" ->
                    Returned(cull_all_below(p, keys[cull_number + 1]))
               [] sel.selection_type = "HighestScore" ->
                    Returned(cull_all_above(p, keys[cull_number + 1]))
               [] sel.selection_type = "RandomAny" -> Panicked(p)

cull_lowest_one_less(p, rate, preferred_minimum) ==
    LET keys == SortedKeys(get_agents(p))
        cull_number == rate_to_number(Len(keys), rate, preferred_minimum)
    IN  IF cull_number >= Len(keys) \/ cull_number = 0 THEN p
        ELSE cull_all_below(p, keys[cull_number])

cull_lowest_keep_lowest(p, rate, preferred_minimum) ==
    LET keys == SortedKeys(get_agents(p))
        cull_number == rate_to_number(Len(keys), rate, preferred_minimum)
    IN  IF cull_number >= Len(keys) THEN p
        ELSE cull_all_above(p, keys[Len(keys) - cull_number])

cull_lowest_agents(p, rate, preferred_minimum) ==
    LET keys == SortedKeys(get_agents(p))
        cull_number == rate_to_number(Len(keys), rate, preferred_minimum)
    IN  IF cull_number >= Len(keys) THEN p
        ELSE cull_all_below(p, keys[cull_number + 1])

\* ------------------------------------------------------------------------
\* GeneralScoreProvider (fitness.rs)
\* ------------------------------------------------------------------------
ScoreWrap == 2 ^ ScoreBits
Scores == 0..(ScoreWrap - 1)
ScoreErr == -1        \* the scoring function returned Err(ScoreError)
Overflow == -2        \* an arithmetic operation on Score panicked

\* a + b on Score: on overflow a build with overflow checks panics and a
\* build without them wraps
CheckedAdd(a, b, checks) ==
    IF a + b < ScoreWrap THEN a + b
    ELSE IF checks THEN Overflow
    ELSE (a + b) % ScoreWrap

CheckedMul(a, b, checks) ==
    IF a * b < ScoreWrap THEN a * b
    ELSE IF checks THEN Overflow
    ELSE (a * b) % ScoreWrap

provider_new(scoring_function, offset) ==
    [scoring_function |-> scoring_function, offset |-> offset,
     score_cache |-> EmptyMap]

\* The body of the loop of evaluate_scores; acc holds the provider, the
\* vector cached and the agents the scoring function was invoked on.
evaluate_one_keep_failed(acc, agent) ==
    LET hash == get_hash(agent)
        pr == acc.provider
    IN  IF hash \in DOMAIN pr.score_cache
        THEN [acc EXCEPT !.cached = Append(@, agent)]
        ELSE LET result == pr.scoring_function[agent]
             IN  IF result # ScoreErr
                 THEN [provider |-> [pr EXCEPT !.score_cache = MapInsert(@, hash, result)],
                       cached |-> Append(acc.cached, agent),
                       invoked |-> Append(acc.invoked, agent)]
                 ELSE [acc EXCEPT !.cached = Append(@, agent),
                                  !.invoked = Append(@, agent)]

evaluate_one(acc, agent) ==
    LET hash == get_hash(agent)
        pr == acc.provider
    IN  IF hash \in DOMAIN pr.score_cache
        THEN [acc EXCEPT !.cached = Append(@, agent)]
        ELSE LET result == pr.scoring_function[agent]
             IN  IF result # ScoreErr
                 THEN [provider |-> [pr EXCEPT !.score_cache = MapInsert(@, hash, result)],
                       cached |-> Append(acc.cached, agent),
                       invoked |-> Append(acc.invoked, agent)]
                 ELSE [acc EXCEPT !.invoked = Append(@, agent)]

RECURSIVE EvaluateFrom(_, _)
EvaluateFrom(acc, agents) ==
    IF agents = <<>> THEN acc
    ELSE EvaluateFrom(evaluate_one(acc, Head(agents)), Tail(agents))

evaluate_scores(pr, agents) ==
    EvaluateFrom([provider |-> pr, cached |-> <<>>, invoked |-> <<>>], agents)

\* The end of get_score: the true fitness plus the drawn offset, floored
with_offset(pr, fitness, offset, checks) ==
    LET score == CheckedAdd(fitness, offset, checks)
    IN  IF score = Overflow THEN Overflow
        ELSE IF score <= pr.offset THEN 0
        ELSE score - pr.offset

\* get_score once the offset is drawn
get_score_no_store(pr, agent, offset, checks) ==
    LET hash == get_hash(agent)
    IN  IF hash \in DOMAIN pr.score_cache
        THEN LET score == with_offset(pr, pr.score_cache[hash], offset, checks)
             IN  [panicked |-> score = Overflow, provider |-> pr,
                  score |-> score, invoked |-> <<>>]
        ELSE LET result == pr.scoring_function[agent]
             IN  IF result = ScoreErr
                 THEN [panicked |-> TRUE, provider |-> pr, score |-> ScoreErr,
                       invoked |-> <<agent>>]
                 ELSE LET score == with_offset(pr, result, offset, checks)
                      IN  [panicked |-> score = Overflow, provider |-> pr,
                           score |-> score, invoked |-> <<agent>>]

get_score(pr, agent, offset, checks) ==
    LET hash == get_hash(agent)
    IN  IF hash \in DOMAIN pr.score_cache
        THEN LET score == with_offset(pr, pr.score_cache[hash], offset, checks)
             IN  [panicked |-> score = Overflow, provider |-> pr,
                  score |-> score, invoked |-> <<>>]
        ELSE LET result == pr.scoring_function[agent]
             IN  IF result = ScoreErr
                 THEN [panicked |-> TRUE, provider |-> pr, score |-> ScoreErr,
                       invoked |-> <<agent>>]
                 ELSE LET stored == [pr EXCEPT !.score_cache = MapInsert(@, hash, result)]
                          score == with_offset(stored, result, offset, checks)
                      IN  [panicked |-> score = Overflow, provider |-> stored,
                           score |-> score, invoked |-> <<agent>>]

\* ------------------------------------------------------------------------
\* Mutate and crossover (operations.rs)
\* ------------------------------------------------------------------------
\* Selection::agents: the maps it can return (one per outcome of the
\* draws), or a panic when keys_len - number underflows.
selection_agents(sel, p) ==
    LET number == rate_to_number(len(p), sel.proportion, sel.preferred_minimum)
    IN  CASE sel.selection_type = "RandomAny" ->
                [panicked |-> FALSE,
                 subsets |-> get_random_subset(get_agents(p), sel.proportion,
                                               sel.preferred_minimum)]
          [] sel.selection_type = "HighestScore" ->
                IF number > len(p)
                THEN [panicked |-> TRUE, subsets |-> {EmptyMap}]
                ELSE [panicked |-> FALSE,
                      subsets |-> {get_highest_scored_agents(get_agents(p), sel.proportion,
                                                             sel.preferred_minimum)}]
          [] sel.selection_type = "LowestScore" ->
                [panicked |-> FALSE,
                 subsets |-> {get_lowest_scored_agents(get_agents(p), sel.proportion,
                                                       sel.preferred_minimum)}]

\* Agent::has_same_genes, Agent::mutate and crossover belong to the agent
\* module, which is not among the sources: an agent is its gene sequence,
\* and what mutate leaves and what crossover returns is any gene sequence,
\* given here as the draw.
has_same_genes(one_agent, two_agent) == one_agent = two_agent

mutate(clone, draw) == draw

crossover(parent_one, parent_two, draw) == draw

\* One clone per selected agent, visited in key order, each mutated
get_mutated_agents(selected, draws) ==
    LET keys == SortedKeys(selected)
    IN  [i \in 1..Len(keys) |-> mutate(selected[keys[i]], draws[i])]

\* The pairs create_random_pairs looks at: keys.len() of them, each from
\* two draws of an index into keys (index i of the Vec is element i + 1)
candidate_pairs(selected, draws) ==
    LET keys == SortedKeys(selected)
    IN  [n \in 1..Len(keys) |->
            <<selected[keys[draws[n][1] + 1]], selected[keys[draws[n][2] + 1]]>>]

create_random_pairs_keep_same(selected, draws) ==
    candidate_pairs(selected, draws)

create_random_pairs(selected, draws) ==
    LET Differ(pair) == ~has_same_genes(pair[1], pair[2])
    IN  SelectSeq(candidate_pairs(selected, draws), Differ)

\* What the scoring loops of mutate_agents and create_children_from_crossover
\* have done so far
Scoring(pr) ==
    [panicked |-> FALSE, provider |-> pr, calls |-> <<>>, agents |-> <<>>]

\* One iteration of `for agent in children { score_index = get_score(..) }`;
\* gen_range(0, self.offset * 2) panics on an empty range, offset is its draw
score_one(acc, agent, offset, checks) ==
    LET pr == acc.provider
        high == CheckedMul(pr.offset, 2, checks)
        was_cached == get_hash(agent) \in DOMAIN pr.score_cache
    IN  IF high = Overflow \/ high = 0
        THEN [acc EXCEPT !.panicked = TRUE,
                         !.calls = Append(@, [agent |-> agent, was_cached |-> was_cached,
                                               invoked |-> <<>>, score |-> Overflow])]
        ELSE LET result == get_score(pr, agent, offset, checks)
             IN  [panicked |-> result.panicked,
                  provider |-> result.provider,
                  calls |-> Append(acc.calls,
                                   [agent |-> agent, was_cached |-> was_cached,
                                    invoked |-> result.invoked, score |-> result.score]),
                  agents |-> IF result.panicked THEN acc.agents
                             ELSE Append(acc.agents, <<result.score, agent>>)]

RECURSIVE ScoreFrom(_, _, _, _)
ScoreFrom(acc, children, offsets, checks) ==
    IF children = <<>> \/ acc.panicked THEN acc
    ELSE ScoreFrom(score_one(acc, Head(children), Head(offsets), checks),
                   Tail(children), Tail(offsets), checks)

\* for (score_index, agent) in children { population.insert(score_index, agent) }
RECURSIVE InsertChildren(_, _)
InsertChildren(p, children) ==
    IF children = <<>> THEN p
    ELSE InsertChildren(insert(p, Head(children)[1], Head(children)[2]), Tail(children))

\* What an operation gives back: the population, the provider, and what
\* it did on the way
Outcome(panicked, p, pr, selected, drawn, pairs, children, cached, calls, inserted) ==
    [panicked |-> panicked, population |-> p, provider |-> pr, selected |-> selected,
     drawn |-> drawn, pairs |-> pairs, children |-> children, cached |-> cached,
     calls |-> calls, inserted |-> inserted]

\* mutate_agents once selection.agents(&population) has given selected;
\* draws are the outcomes of mutate, offsets the draws of get_score.  In
\* the source the insert follows each get_score, so a panic leaves the
\* children scored before it inserted in a population that is then lost.
mutate_agents_no_evaluate(p, selected, draws, pr, offsets, checks) ==
    LET children == get_mutated_agents(selected, draws)
        scoring == ScoreFrom(Scoring(pr), children, offsets, checks)
    IN  Outcome(scoring.panicked, InsertChildren(p, scoring.agents), scoring.provider,
                selected, <<>>, <<>>, children, children, scoring.calls, scoring.agents)

mutate_agents(p, selected, draws, pr, offsets, checks) ==
    LET children == get_mutated_agents(selected, draws)
        evaluated == evaluate_scores(pr, children)
        scoring == ScoreFrom(Scoring(evaluated.provider), evaluated.cached, offsets, checks)
    IN  Outcome(scoring.panicked, InsertChildren(p, scoring.agents), scoring.provider,
                selected, <<>>, <<>>, children, evaluated.cached, scoring.calls,
                scoring.agents)

\* One child per pair, then the batch is evaluated and each survivor scored
create_children_from_crossover(pairs, draws, pr, offsets, checks) ==
    LET children == [i \in 1..Len(pairs) |-> crossover(pairs[i][1], pairs[i][2], draws[i])]
        evaluated == evaluate_scores(pr, children)
        scoring == ScoreFrom(Scoring(evaluated.provider), evaluated.cached, offsets, checks)
    IN  [panicked |-> scoring.panicked, provider |-> scoring.provider,
         children |-> children, cached |-> evaluated.cached,
         calls |-> scoring.calls, agents |-> scoring.agents]

\* crossover_agents once selection.agents(&population) has given selected;
\* pair_draws are the index draws of create_random_pairs.  A panic in
\* create_children_from_crossover leaves the population without any child.
crossover_agents(p, selected, pair_draws, draws, pr, offsets, checks) ==
    LET pairs == create_random_pairs(selected, pair_draws)
        made == create_children_from_crossover(pairs, draws, pr, offsets, checks)
    IN  Outcome(made.panicked,
                IF made.panicked THEN p ELSE InsertChildren(p, made.agents),
                made.provider, selected, candidate_pairs(selected, pair_draws), pairs,
                made.children, made.cached, made.calls,
                IF made.panicked THEN <<>> ELSE made.agents)

\* ------------------------------------------------------------------------
\* Multi-level evolution (evolution.rs)
\* ------------------------------------------------------------------------
RECURSIVE Pow(_, _)
Pow(b, e) == IF e = 0 THEN 1 ELSE b * Pow(b, e - 1)

LevelBits == 3        \* width of levels (u32 in the source, scaled down)
SizeBits == 7         \* width of usize (scaled down)

\* A usize result: on overflow a build with overflow checks panics and a
\* build without them wraps
WrapSize(number, checks) ==
    IF number < 2 ^ SizeBits THEN number
    ELSE IF checks THEN Overflow
    ELSE number % (2 ^ SizeBits)

\* levels - 1 on the unsigned levels
levels_minus_one(levels, checks) ==
    IF levels >= 1 THEN levels - 1
    ELSE IF checks THEN Overflow
    ELSE 2 ^ LevelBits - 1

\* A population together with the leaf populations it was merged from
Tracked(p, leaves) == [pop |-> p, leaves |-> leaves]

NoPopulation == Tracked(new_empty(FALSE), {})

\* The seeding loop of create_population over the drawn <<agent, score>>
RECURSIVE SeedFrom(_, _)
SeedFrom(p, seeds) ==
    IF seeds = <<>> THEN p
    ELSE LET agent == Head(seeds)[1]
             score == Head(seeds)[2]
         IN  IF will_accept(p, agent)
             THEN SeedFrom(insert(p, FallbackSlot(p, score), agent), Tail(seeds))
             ELSE SeedFrom(p, Tail(seeds))

create_population(seeds) == SeedFrom(new_empty(FALSE), seeds)

\* run_iterations with iterations = 0, the only value used here: the loop
\* body does not run.
run_iterations(p) == p

\* for (score, agent) in sub_population.get_agents() { population.insert(..) }
RECURSIVE InsertFrom(_, _, _)
InsertFrom(p, sub, keys) ==
    IF keys = <<>> THEN p
    ELSE InsertFrom(insert(p, Head(keys), get(sub, Head(keys))), sub, Tail(keys))

insert_all_keep_occupied(p, sub) ==
    [p EXCEPT !.agents =
        [x \in (DOMAIN p.agents) \cup (DOMAIN sub.agents) |->
            IF x \in DOMAIN p.agents THEN p.agents[x] ELSE sub.agents[x]]]

insert_all(p, sub) == InsertFrom(p, sub, SortedKeys(get_agents(sub)))

number_of_new_one_level_up(sub_populations_per_level, level) ==
    Pow(sub_populations_per_level, level + 1)

number_of_new_populations(sub_populations_per_level, level) ==
    Pow(sub_populations_per_level, level)

\* The locals of one run of population_from_multilevel_sub_populations or
\* threaded_population_from_multilevel_sub_populations, and where it stands.
Process(id, pc, levels, sub_populations_per_level, initial_population_size, populations) ==
    [id |-> id, pc |-> pc, levels |-> levels,
     sub_populations_per_level |-> sub_populations_per_level,
     initial_population_size |-> initial_population_size,
     populations |-> populations, new_populations |-> <<>>,
     level |-> levels, number_of_new_populations |-> 0, made |-> 0,
     population |-> NoPopulation, popped |-> 0, consumed |-> <<>>,
     seeded |-> 0, rounds |-> 0, result |-> NoPopulation,
     spawned |-> 0, joined |-> 0]

Front(seq) == SubSeq(seq, 1, Len(seq) - 1)
Last(seq) == seq[Len(seq)]

\* One step of population_from_multilevel_sub_populations followed by
\* populations_from_existing_multillevel: one iteration of the innermost
\* loop the run stands in.  seeds are the draws of create_population.
SequentialStep(proc, seeds, checks) ==
    LET s == proc.sub_populations_per_level
        number_of_initial_populations == WrapSize(Pow(s, proc.levels), checks)
    IN  CASE proc.pc = "seed" ->
            IF number_of_initial_populations = Overflow
            THEN [proc EXCEPT !.pc = "panicked"]
            ELSE IF proc.seeded < number_of_initial_populations
            THEN [proc EXCEPT
                    !.populations = Append(@,
                        Tracked(run_iterations(create_population(seeds)),
                                {<<proc.id, proc.seeded>>})),
                    !.seeded = @ + 1]
            ELSE [proc EXCEPT !.pc = "round", !.level = proc.levels]
        [] proc.pc = "round" ->
            IF proc.level = 0
            THEN [proc EXCEPT !.pc = "return"]
            ELSE LET number == WrapSize(number_of_new_populations(s, proc.level - 1),
                                        checks)
                 IN  IF number = Overflow
                     THEN [proc EXCEPT !.pc = "panicked"]
                     ELSE [proc EXCEPT
                             !.level = @ - 1,
                             !.number_of_new_populations = number,
                             !.new_populations = <<>>,
                             !.made = 0,
                             !.pc = "bucket"]
        [] proc.pc = "bucket" ->
            IF proc.made < proc.number_of_new_populations
            THEN [proc EXCEPT !.population = NoPopulation, !.popped = 0,
                              !.consumed = <<>>, !.pc = "pop"]
            ELSE [proc EXCEPT !.populations = proc.new_populations,
                              !.rounds = @ + 1, !.pc = "round"]
        [] proc.pc = "pop" ->
            IF proc.popped < s
            THEN IF proc.populations = <<>>
                 THEN [proc EXCEPT !.pc = "panicked"]
                 ELSE LET sub_population == Last(proc.populations)
                      IN  [proc EXCEPT
                             !.populations = Front(@),
                             !.population =
                                 Tracked(insert_all(@.pop, sub_population.pop),
                                         @.leaves \cup sub_population.leaves),
                             !.consumed = Append(@, sub_population),
                             !.popped = @ + 1]
            ELSE [proc EXCEPT
                    !.new_populations = Append(@,
                        Tracked(cull_lowest_agents(run_iterations(proc.population.pop),
                                                   [num |-> 3, den |-> 4], 0),
                                proc.population.leaves)),
                    !.made = @ + 1,
                    !.pc = "bucket"]
        [] proc.pc = "return" ->
            IF proc.populations = <<>>
            THEN [proc EXCEPT !.pc = "panicked"]
            ELSE [proc EXCEPT !.result = Last(proc.populations),
                              !.populations = Front(@), !.pc = "done"]

\* handle.join().unwrap() on a worker: blocks while it runs, panics if it
\* panicked, else gives its population
join_no_wait(worker) ==
    [blocked |-> FALSE, panicked |-> worker.pc = "panicked",
     population |-> worker.result]

join_ignore_panic(worker) ==
    [blocked |-> worker.pc \notin {"done", "panicked"},
     panicked |-> FALSE,
     population |-> worker.result]

join_unwrap(worker) ==
    [blocked |-> worker.pc \notin {"done", "panicked"},
     panicked |-> worker.pc = "panicked",
     population |-> worker.result]

\* ------------------------------------------------------------------------
\* State
\* ------------------------------------------------------------------------
VARIABLES
    population,   \* the Population: [agents, register, unique_agents]
    start_size,   \* start_size of Population::new
    seeded,       \* iterations of the seeding loop done so far
    op,           \* the last call: [name, slot, agent, before]
    ret,          \* what the last call returned
    aborted,      \* a call panicked
    selection,    \* the Selection in use: [selection_type, proportion, preferred_minimum]
    subset,       \* the map Selection::agents returned
    rtn_args,     \* arguments of rate_to_number
    rtn_number,   \* result of rate_to_number, Pending before the call
    provider,     \* the GeneralScoreProvider: [scoring_function, offset, score_cache]
    fit,          \* the last call on the provider and what it gave
    invocations,  \* per agent, how often the scoring function was invoked (up to 2)
    overflow_checks,  \* the build panics on integer overflow (else it wraps)
    main,         \* the thread that called the multi-level evolution
    workers,      \* the threads it spawned, in spawn order
    run           \* the last Operation::run or iteration cycle step and what it did

fitvars == <<provider, fit, invocations, overflow_checks>>

evovars == <<main, workers>>

vars == <<population, start_size, seeded, op, ret, aborted, selection, subset,
          rtn_args, rtn_number, fitvars, evovars, run>>

\* The record of a call; before is len() of the population when it was made.
Call(name, slot, agent) ==
    [name |-> name, slot |-> slot, agent |-> agent, before |-> len(population)]

NoSelection ==
    [selection_type |-> "None", proportion |-> [num |-> 0, den |-> 1],
     preferred_minimum |-> 0]

NoRateArgs == [population |-> 0, rate |-> [num |-> 0, den |-> 1], preferred_minimum |-> 0]

SelectionIdle == selection = NoSelection /\ subset = EmptyMap

RateIdle == rtn_args = NoRateArgs /\ rtn_number = Pending

FitAgents == {1, 2}

NoFitCall ==
    [name |-> "new", agents |-> <<>>, offset |-> 0, was_cached |-> FALSE,
     cached |-> <<>>, invoked |-> <<>>, score |-> 0]

ProviderIdle ==
    /\ provider = provider_new([a \in FitAgents |-> 0], 0)
    /\ fit = NoFitCall
    /\ invocations = [a \in FitAgents |-> 0]

FitIdle == ProviderIdle /\ overflow_checks = TRUE

EvoIdle ==
    /\ main = Process(0, "idle", 0, 0, 0, <<>>)
    /\ workers = <<>>

\* No operation has run yet
NoRun ==
    [name |-> "none", phase |-> "leaf", top |-> -1,
     before |-> new_empty(FALSE), provider |-> provider_new([a \in FitAgents |-> 0], 0),
     selected |-> EmptyMap, drawn |-> <<>>, pairs |-> <<>>, children |-> <<>>,
     cached |-> <<>>, calls |-> <<>>, inserted |-> <<>>]

RunIdle == run = NoRun

\* The map Selection::agents returns borrows the population, so it is gone
\* by the time the population is changed.
DropSelection == subset' = EmptyMap /\ UNCHANGED selection

\* start_size and the loop counter are locals of Population::new: they are
\* gone once it has returned and a method is called on the result.
NewReturned == start_size' = 0 /\ seeded' = 0

\* ------------------------------------------------------------------------
\* Population::new and the Population operations as steps
\* ------------------------------------------------------------------------
Init ==
    /\ \E unique \in BOOLEAN : population = new_empty(unique)
    /\ start_size \in 0..MaxStart
    /\ seeded = 0
    /\ op = Call("new", 0, NoAgent)
    /\ ret = 0
    /\ aborted = FALSE
    /\ SelectionIdle
    /\ RateIdle
    /\ FitIdle
    /\ EvoIdle
    /\ RunIdle

Ready == seeded = start_size /\ ~aborted

\* One iteration of the seeding loop of Population::new: a fresh random
\* agent, its nominal score from the caller's score index function (kept in
\* ret when the agent is accepted).
SeedStep(agent, score) ==
    /\ seeded < start_size
    /\ ~aborted
    /\ IF will_accept(population, agent)
       THEN LET slot == FallbackSlot(population, score)
            IN  /\ population' = insert(population, slot, agent)
                /\ op' = Call("new", slot, agent)
                /\ ret' = score
       ELSE /\ population' = population
            /\ op' = Call("new", score, agent)
            /\ ret' = 0
    /\ seeded' = seeded + 1
    /\ DropSelection
    /\ UNCHANGED <<start_size, aborted, rtn_args, rtn_number, fitvars, evovars, run>>

Insert(score, agent) ==
    /\ Ready
    /\ population' = insert(population, score, agent)
    /\ op' = Call("insert", score, agent)
    /\ ret' = 0
    /\ DropSelection
    /\ NewReturned
    /\ UNCHANGED <<aborted, rtn_args, rtn_number, fitvars, evovars, run>>

Remove(score) ==
    /\ Ready
    /\ population' = remove(population, score)[1]
    /\ ret' = remove(population, score)[2]
    /\ op' = Call("remove", score, NoAgent)
    /\ DropSelection
    /\ NewReturned
    /\ UNCHANGED <<aborted, rtn_args, rtn_number, fitvars, evovars, run>>

CullAllBelow(score) ==
    /\ Ready
    /\ population' = cull_all_below(population, score)
    /\ op' = Call("cull_all_below", score, NoAgent)
    /\ ret' = 0
    /\ DropSelection
    /\ NewReturned
    /\ UNCHANGED <<aborted, rtn_args, rtn_number, fitvars, evovars, run>>

\* A read-only call: the population is left alone, the result is recorded.
Query(name, slot, agent, result) ==
    /\ Ready
    /\ op' = Call(name, slot, agent)
    /\ ret' = result
    /\ NewReturned
    /\ UNCHANGED <<population, aborted, selection, subset, rtn_args, rtn_number, fitvars, evovars, run>>

Get(score) == Query("get", score, NoAgent, get(population, score))

GetAgents == Query("get_agents", 0, NoAgent, get_agents(population))

LenCall == Query("len", 0, NoAgent, len(population))

ContainsScore(score) ==
    Query("contains_score", score, NoAgent, contains_score(population, score))

WillAccept(agent) ==
    Query("will_accept", 0, agent, will_accept(population, agent))

GetScores == Query("get_scores", 0, NoAgent, get_scores(population))

\* get_scores()[rng.gen_range(0, len)]; gen_range panics when low >= high
GetRandomScore ==
    /\ Ready
    /\ op' = Call("get_random_score", 0, NoAgent)
    /\ IF len(population) = 0
       THEN /\ aborted' = TRUE
            /\ ret' = 0
       ELSE /\ aborted' = FALSE
            /\ \E i \in 1..len(population) : ret' = get_scores(population)[i]
    /\ NewReturned
    /\ UNCHANGED <<population, selection, subset, rtn_args, rtn_number, fitvars, evovars, run>>

Next ==
    \/ \E agent \in Agents, score \in Slots : SeedStep(agent, score)
    \/ \E agent \in Agents, score \in Slots : Insert(score, agent)
    \/ \E score \in Slots : Remove(score)
    \/ \E score \in 0..(MaxSlot + 1) : CullAllBelow(score)
    \/ \E score \in Slots : Get(score)
    \/ GetAgents
    \/ LenCall
    \/ \E score \in Slots : ContainsScore(score)
    \/ \E agent \in Agents : WillAccept(agent)
    \/ GetScores
    \/ GetRandomScore

Spec == Init /\ [][Next]_vars

\* ------------------------------------------------------------------------
\* rate_to_number applied to drawn arguments
\* ------------------------------------------------------------------------
InitRate ==
    /\ population = new_empty(FALSE)
    /\ start_size = 0
    /\ seeded = 0
    /\ op = Call("rate_to_number", 0, NoAgent)
    /\ ret = 0
    /\ aborted = FALSE
    /\ SelectionIdle
    /\ rtn_args \in [population : 0..MaxPop, rate : Rates, preferred_minimum : 0..MaxMin]
    /\ rtn_number = Pending
    /\ FitIdle
    /\ EvoIdle
    /\ RunIdle

RateToNumber ==
    /\ rtn_number = Pending
    /\ rtn_number' = rate_to_number(rtn_args.population, rtn_args.rate,
                                    rtn_args.preferred_minimum)
    /\ UNCHANGED <<population, start_size, seeded, op, ret, aborted, selection,
                   subset, rtn_args, fitvars, evovars, run>>

NextRate == RateToNumber

SpecRate == InitRate /\ [][NextRate]_vars

\* ------------------------------------------------------------------------
\* Selection::agents on a population built by inserts
\* ------------------------------------------------------------------------
SelectionTypes == {"RandomAny", "HighestScore", "LowestScore"}

InitSel ==
    /\ population = new_empty(FALSE)
    /\ start_size = 0
    /\ seeded = 0
    /\ op = Call("new_empty", 0, NoAgent)
    /\ ret = 0
    /\ aborted = FALSE
    /\ selection \in [selection_type : SelectionTypes, proportion : SelRates,
                       preferred_minimum : 0..MaxSelMin]
    /\ subset = EmptyMap
    /\ RateIdle
    /\ FitIdle
    /\ EvoIdle
    /\ RunIdle

\* selection.agents(&population), the Selection made by
\* Selection::with_values.  keys_len - number is a usize subtraction: it
\* panics when number > keys_len.
SelectAgents ==
    /\ Ready
    /\ op' = Call("agents", 0, NoAgent)
    /\ ret' = 0
    /\ LET agents == get_agents(population)
           selection_type == selection.selection_type
           proportion == selection.proportion
           preferred_minimum == selection.preferred_minimum
           number == rate_to_number(len(population), proportion, preferred_minimum)
       IN  CASE selection_type = "RandomAny" ->
                  /\ subset' \in get_random_subset(agents, proportion, preferred_minimum)
                  /\ aborted' = FALSE
             [] selection_type = "HighestScore" ->
                  IF number > len(population)
                  THEN subset' = EmptyMap /\ aborted' = TRUE
                  ELSE /\ subset' = get_highest_scored_agents(agents, proportion,
                                                              preferred_minimum)
                       /\ aborted' = FALSE
             [] selection_type = "LowestScore" ->
                  /\ subset' = get_lowest_scored_agents(agents, proportion,
                                                        preferred_minimum)
                  /\ aborted' = FALSE
    /\ UNCHANGED <<population, start_size, seeded, selection, rtn_args, rtn_number, fitvars, evovars, run>>

NextSel ==
    \/ \E agent \in Agents, score \in Slots : Insert(score, agent)
    \/ SelectAgents

SpecSel == InitSel /\ [][NextSel]_vars

\* ------------------------------------------------------------------------
\* Cull on a population built by inserts
\* ------------------------------------------------------------------------
CullContents == {1, 2}

InitCull ==
    /\ population = new_empty(FALSE)
    /\ start_size = 0
    /\ seeded = 0
    /\ op = Call("new_empty", 0, NoAgent)
    /\ ret = 0
    /\ aborted = FALSE
    /\ selection \in [selection_type : SelectionTypes, proportion : CullRates,
                       preferred_minimum : 0..MaxSelMin]
    /\ subset = EmptyMap
    /\ RateIdle
    /\ FitIdle
    /\ EvoIdle
    /\ RunIdle

\* Operation::new(OperationType::Cull, selection).run(population, ..)
RunCull ==
    /\ Ready
    /\ LET result == cull_agents(population, selection)
       IN  /\ population' = result.population
           /\ aborted' = result.panicked
    /\ op' = Call("cull_agents", 0, NoAgent)
    /\ ret' = 0
    /\ DropSelection
    /\ NewReturned
    /\ UNCHANGED <<rtn_args, rtn_number, fitvars, evovars, run>>

\* cull_lowest_agents with the rate and preferred minimum of the Selection
CullLowestAgents ==
    /\ Ready
    /\ population' = cull_lowest_agents(population, selection.proportion,
                                        selection.preferred_minimum)
    /\ op' = Call("cull_lowest_agents", 0, NoAgent)
    /\ ret' = 0
    /\ DropSelection
    /\ NewReturned
    /\ UNCHANGED <<aborted, rtn_args, rtn_number, fitvars, evovars, run>>

NextCull ==
    \/ \E agent \in CullContents, score \in Slots : Insert(score, agent)
    \/ RunCull
    \/ CullLowestAgents

SpecCull == InitCull /\ [][NextCull]_vars

\* ------------------------------------------------------------------------
\* Calls on one GeneralScoreProvider
\* ------------------------------------------------------------------------
Batches == UNION {[1..n -> FitAgents] : n \in 0..MaxBatch}

\* How often the scoring function was invoked on agent, counted up to 2
Invoked(agent, invoked) ==
    LET n == invocations[agent] + Cardinality({i \in DOMAIN invoked : invoked[i] = agent})
    IN  IF n > 2 THEN 2 ELSE n

InitFit ==
    /\ population = new_empty(FALSE)
    /\ start_size = 0
    /\ seeded = 0
    /\ op = Call("new_empty", 0, NoAgent)
    /\ ret = 0
    /\ aborted = FALSE
    /\ SelectionIdle
    /\ RateIdle
    /\ provider \in {provider_new(f, o) :
                        f \in [FitAgents -> Scores \cup {ScoreErr}], o \in 0..MaxOffset}
    /\ fit = NoFitCall
    /\ invocations = [a \in FitAgents |-> 0]
    /\ overflow_checks \in BOOLEAN
    /\ EvoIdle
    /\ RunIdle

FitUnchanged ==
    UNCHANGED <<population, start_size, seeded, op, ret, selection, subset,
                rtn_args, rtn_number, overflow_checks, evovars, run>>

EvaluateScores(agents) ==
    /\ ~aborted
    /\ LET result == evaluate_scores(provider, agents)
       IN  /\ provider' = result.provider
           /\ fit' = [name |-> "evaluate_scores", agents |-> agents, offset |-> 0,
                      was_cached |-> FALSE, cached |-> result.cached,
                      invoked |-> result.invoked, score |-> 0]
           /\ invocations' = [a \in FitAgents |-> Invoked(a, result.invoked)]
    /\ UNCHANGED aborted
    /\ FitUnchanged

\* rng.gen_range(0, self.offset * 2) panics on an empty range
GetScore(agent) ==
    /\ ~aborted
    /\ LET high == CheckedMul(provider.offset, 2, overflow_checks)
           was_cached == get_hash(agent) \in DOMAIN provider.score_cache
       IN  IF high = Overflow \/ high = 0
           THEN /\ aborted' = TRUE
                /\ fit' = [name |-> "get_score", agents |-> <<agent>>, offset |-> 0,
                           was_cached |-> was_cached, cached |-> <<>>,
                           invoked |-> <<>>, score |-> Overflow]
                /\ UNCHANGED <<provider, invocations>>
           ELSE \E offset \in 0..(high - 1) :
                    LET result == get_score(provider, agent, offset, overflow_checks)
                    IN  /\ aborted' = result.panicked
                        /\ provider' = result.provider
                        /\ fit' = [name |-> "get_score", agents |-> <<agent>>,
                                   offset |-> offset, was_cached |-> was_cached,
                                   cached |-> <<>>, invoked |-> result.invoked,
                                   score |-> result.score]
                        /\ invocations' = [a \in FitAgents |-> Invoked(a, result.invoked)]
    /\ FitUnchanged

NextFit ==
    \/ \E agents \in Batches : EvaluateScores(agents)
    \/ \E agent \in FitAgents : GetScore(agent)

SpecFit == InitFit /\ [][NextFit]_vars

\* ------------------------------------------------------------------------
\* Sequential multi-level evolution
\* ------------------------------------------------------------------------
EvoAgents == {1}      \* what Agent::new can draw
EvoSlots == {0}       \* what get_score_index can return
EvoSeeds(size) == [1..size -> EvoAgents \X EvoSlots]

MergePcs == {"round", "bucket", "pop", "return"}
SequentialPcs == {"seed"} \cup MergePcs

CallsIdle ==
    /\ population = new_empty(FALSE)
    /\ start_size = 0
    /\ seeded = 0
    /\ op = Call("new_empty", 0, NoAgent)
    /\ ret = 0
    /\ SelectionIdle
    /\ RateIdle
    /\ RunIdle

OthersIdle == CallsIdle /\ FitIdle

OthersUnchanged ==
    UNCHANGED <<population, start_size, seeded, op, ret, selection, subset,
                rtn_args, rtn_number, fitvars, run>>

InitEvo ==
    /\ OthersIdle
    /\ aborted = FALSE
    /\ main \in {Process(0, "seed", levels, s, size, <<>>) :
                    levels \in 0..MaxLevels, s \in 0..MaxBranch, size \in 0..MaxInitial}
    /\ workers = <<>>

\* The calling thread runs the sequential evolution or a merge
EvoStep ==
    /\ main.pc \in SequentialPcs
    /\ \E seeds \in EvoSeeds(main.initial_population_size) :
          main' = SequentialStep(main, seeds, overflow_checks)
    /\ aborted' = (main'.pc = "panicked")
    /\ UNCHANGED workers
    /\ OthersUnchanged

NextEvo == EvoStep

SpecEvo == InitEvo /\ [][NextEvo]_vars

\* ------------------------------------------------------------------------
\* One merge round on given populations
\* ------------------------------------------------------------------------
MergeAgents == {1, 2}

MergePopulations ==
    {[agents |-> m, register |-> {}, unique_agents |-> FALSE] :
        m \in UNION {[d -> MergeAgents] : d \in SUBSET (0..MaxMergeSlot)}}

\* populations_from_existing_multillevel(populations, 1, s, ..)
InitMerge ==
    /\ OthersIdle
    /\ aborted = FALSE
    /\ \E s \in 0..MaxMergeBranch :
          \E given \in [1..s -> MergePopulations] :
              main = Process(0, "round", 1, s, 0,
                             [i \in 1..s |-> Tracked(given[i], {<<0, i - 1>>})])
    /\ workers = <<>>

NextMerge == EvoStep

SpecMerge == InitMerge /\ [][NextMerge]_vars

\* ------------------------------------------------------------------------
\* Thread-parallel multi-level evolution
\* ------------------------------------------------------------------------
InitThreads ==
    /\ OthersIdle
    /\ aborted = FALSE
    /\ main \in {Process(0, "spawn", levels, s, size, <<>>) :
                    levels \in 1..MaxThreadLevels, s \in 0..MaxThreads,
                    size \in 0..MaxInitial}
    /\ workers = <<>>

\* handles.push(thread::spawn(move || ..))
Spawn ==
    /\ main.pc = "spawn"
    /\ IF main.spawned < main.sub_populations_per_level
       THEN /\ workers' = Append(workers,
                    Process(main.spawned + 1, "start", main.levels,
                            main.sub_populations_per_level,
                            main.initial_population_size, <<>>))
            /\ main' = [main EXCEPT !.spawned = @ + 1]
       ELSE /\ main' = [main EXCEPT !.pc = "join"]
            /\ UNCHANGED workers
    /\ UNCHANGED aborted
    /\ OthersUnchanged

\* populations.push(handle.join().unwrap()), then the call of
\* populations_from_existing_multillevel(populations, 1, ..)
Join ==
    /\ main.pc = "join"
    /\ IF main.joined < main.sub_populations_per_level
       THEN LET joined == join_unwrap(workers[main.joined + 1])
            IN  /\ ~joined.blocked
                /\ main' = IF joined.panicked
                           THEN [main EXCEPT !.pc = "panicked"]
                           ELSE [main EXCEPT !.populations = Append(@, joined.population),
                                             !.joined = @ + 1]
       ELSE main' = [main EXCEPT !.pc = "round", !.level = 1]
    /\ aborted' = (main'.pc = "panicked")
    /\ UNCHANGED workers
    /\ OthersUnchanged

MainStep == Spawn \/ Join \/ EvoStep

\* The closure of worker i: population_from_multilevel_sub_populations(levels - 1, ..)
WorkerStep(i) ==
    /\ i \in DOMAIN workers
    /\ LET worker == workers[i]
           levels == levels_minus_one(worker.levels, overflow_checks)
       IN  \/ /\ worker.pc = "start"
              /\ workers' = [workers EXCEPT ![i] =
                                IF levels = Overflow
                                THEN [worker EXCEPT !.pc = "panicked"]
                                ELSE [worker EXCEPT !.pc = "seed", !.levels = levels]]
           \/ /\ worker.pc \in SequentialPcs
              /\ \E seeds \in EvoSeeds(worker.initial_population_size) :
                    workers' = [workers EXCEPT ![i] =
                                   SequentialStep(worker, seeds, overflow_checks)]
    /\ UNCHANGED <<main, aborted>>
    /\ OthersUnchanged

\* get_score_index is the caller's function: it can panic when
\* create_population calls it in worker i
ScoreIndexPanics(i) ==
    /\ i \in DOMAIN workers
    /\ workers[i].pc = "seed"
    /\ workers[i].seeded < WrapSize(Pow(workers[i].sub_populations_per_level,
                                         workers[i].levels), overflow_checks)
    /\ workers[i].initial_population_size > 0
    /\ workers' = [workers EXCEPT ![i].pc = "panicked"]
    /\ UNCHANGED <<main, aborted>>
    /\ OthersUnchanged

NextThreads ==
    \/ MainStep
    \/ \E i \in 1..MaxThreads : WorkerStep(i)
    \/ \E i \in 1..MaxThreads : ScoreIndexPanics(i)

SpecThreads == InitThreads /\ [][NextThreads]_vars

\* The same from every level count, in a build with or without overflow
\* checks
InitThreadsAny ==
    /\ CallsIdle
    /\ ProviderIdle
    /\ overflow_checks \in BOOLEAN
    /\ aborted = FALSE
    /\ main \in {Process(0, "spawn", levels, s, size, <<>>) :
                    levels \in 0..MaxThreadLevels, s \in 0..MaxThreads,
                    size \in 0..MaxInitial}
    /\ workers = <<>>

SpecThreadsAny == InitThreadsAny /\ [][NextThreads]_vars

\* A thread that can take a step is scheduled in the end, and join returns
\* once the worker is over; a panic of the caller's function may or may not
\* happen.
SpecThreadsFair ==
    /\ SpecThreads
    /\ WF_vars(MainStep)
    /\ \A i \in 1..MaxThreads : WF_vars(WorkerStep(i))

\* ------------------------------------------------------------------------
\* Operations, the iteration cycle and a merge on one population
\* ------------------------------------------------------------------------
\* The highest occupied slot, -1 when there is none
Top(p) == IF DOMAIN p.agents = {} THEN -1 ELSE -Min({-x : x \in DOMAIN p.agents})

OpAgents == {1, 2}                       \* gene sequences of the agents
OpSlots == {0, 1}                        \* slots of the population given
OpFitness == {ScoreErr, 1, ScoreWrap - 1}    \* what the scoring function returns
OpOffsets == {0, 1}                      \* offsets of the score provider
OpRates == {[num |-> 0, den |-> 1], [num |-> 1, den |-> 2], [num |-> 1, den |-> 1]}
OpMinimums == {0, 1}                     \* preferred minimums of the Selection

OpPopulations ==
    {[agents |-> m,
      register |-> IF u THEN {get_hash(m[x]) : x \in DOMAIN m} ELSE {},
      unique_agents |-> u] :
        m \in {f \in UNION {[d -> OpAgents] : d \in SUBSET OpSlots} :
                  \A x, y \in DOMAIN f : f[x] = f[y] => x = y},
        u \in BOOLEAN}

\* The populations create_population returns
OpLeaves == {p \in OpPopulations : ~p.unique_agents}

OpSelections ==
    [selection_type : SelectionTypes, proportion : OpRates,
     preferred_minimum : OpMinimums]

InitOps ==
    /\ population \in OpPopulations
    /\ start_size = 0
    /\ seeded = 0
    /\ op = Call("new_empty", 0, NoAgent)
    /\ ret = 0
    /\ aborted = FALSE
    /\ SelectionIdle
    /\ RateIdle
    /\ ProviderIdle
    /\ overflow_checks \in BOOLEAN
    /\ EvoIdle
    /\ run = [NoRun EXCEPT !.top = Top(population)]

\* The score providers an operation is given
OpProviders ==
    {provider_new(f, o) : f \in [OpAgents -> OpFitness], o \in OpOffsets}

\* What the calls of one operation can draw
MutationDraws(n) == [1..n -> OpAgents]
PairDraws(n) == [1..n -> (0..(n - 1)) \X (0..(n - 1))]
OffsetDraws(pr, n) ==
    LET high == CheckedMul(pr.offset, 2, overflow_checks)
    IN  [1..n -> IF high = Overflow \/ high = 0 THEN {0} ELSE 0..(high - 1)]

\* The state after an operation that gave outcome (see Outcome)
Ran(name, sel, outcome) ==
    /\ population' = outcome.population
    /\ provider' = outcome.provider
    /\ aborted' = outcome.panicked
    /\ selection' = sel
    /\ subset' = EmptyMap
    /\ op' = Call(name, 0, NoAgent)
    /\ ret' = 0
    /\ UNCHANGED <<start_size, seeded, rtn_args, rtn_number, fit, invocations,
                   overflow_checks, evovars>>

Record(name, pr, outcome) ==
    [name |-> name, phase |-> run.phase, top |-> run.top,
     before |-> population, provider |-> pr,
     selected |-> outcome.selected, drawn |-> outcome.drawn, pairs |-> outcome.pairs,
     children |-> outcome.children, cached |-> outcome.cached,
     calls |-> outcome.calls, inserted |-> outcome.inserted]

Step(name, sel, pr, outcome) ==
    /\ Ran(name, sel, outcome)
    /\ run' = Record(name, pr, outcome)

\* An operation that selected nothing because Selection::agents panicked,
\* or that does not select
Unselected(panicked, p) ==
    Outcome(panicked, p, provider, EmptyMap, <<>>, <<>>, <<>>, <<>>, <<>>, <<>>)

\* A step of the iteration cycle or of a merge: what is kept of it is
\* its name, whether the population is a merged one, and the highest slot
\* of the leaves that went into the population
CycleStep(name, phase, top, sel, p) ==
    /\ Ran(name, sel, Unselected(FALSE, p))
    /\ run' = [NoRun EXCEPT !.name = name, !.phase = phase, !.top = top]

\* Operation::run for OperationType::Mutate with the score provider pr
Mutate(name, sel, pr) ==
    LET chosen == selection_agents(sel, population)
    IN  IF chosen.panicked
        THEN Step(name, sel, pr, [Unselected(TRUE, population) EXCEPT !.provider = pr])
        ELSE \E selected \in chosen.subsets :
                \E draws \in MutationDraws(Cardinality(DOMAIN selected)),
                   offsets \in OffsetDraws(pr, Cardinality(DOMAIN selected)) :
                    Step(name, sel, pr,
                         mutate_agents(population, selected, draws, pr, offsets,
                                       overflow_checks))

\* Operation::run for OperationType::Crossover with the score provider pr
Crossover(name, sel, pr) ==
    LET chosen == selection_agents(sel, population)
    IN  IF chosen.panicked
        THEN Step(name, sel, pr, [Unselected(TRUE, population) EXCEPT !.provider = pr])
        ELSE \E selected \in chosen.subsets :
                \E pair_draws \in PairDraws(Cardinality(DOMAIN selected)) :
                    LET made == Len(create_random_pairs(selected, pair_draws))
                    IN  \E draws \in MutationDraws(made),
                           offsets \in OffsetDraws(pr, made) :
                            Step(name, sel, pr,
                                 crossover_agents(population, selected, pair_draws,
                                                  draws, pr, offsets, overflow_checks))

\* Operation::run for OperationType::Cull
Cull(name, sel) ==
    LET result == cull_agents(population, sel)
    IN  Step(name, sel, provider, Unselected(result.panicked, result.population))

LowestSelection(rate, preferred_minimum) ==
    [selection_type |-> "LowestScore", proportion |-> rate,
     preferred_minimum |-> preferred_minimum]

\* One operation on the population given
Fresh == ~aborted /\ run.name = "none"

RunMutate(sel, pr) == Fresh /\ Mutate("mutate_agents", sel, pr)

RunCrossover(sel, pr) == Fresh /\ Crossover("crossover_agents", sel, pr)

RunCullAgents(sel) == Fresh /\ Cull("cull_agents", sel)

RunCullLowest(sel) ==
    /\ Fresh
    /\ Step("cull_lowest_agents",
            LowestSelection(sel.proportion, sel.preferred_minimum), provider,
            Unselected(FALSE, cull_lowest_agents(population, sel.proportion,
                                                 sel.preferred_minimum)))

\* The body of the loop of run_iterations.  mutate_some_agents,
\* mate_alpha_agents, mate_some_agents and the two-argument
\* cull_lowest_agents it calls are not in operations.rs: they are the
\* mutate, crossover and cull of section 4.4 with the selections of section
\* 4.5, random for mutate and general mating and by rank for elite mating,
\* and they are given get_score_index in place of a score provider.  A
\* child is dropped or inserted at a slot; places says which.  The preferred
\* minimums 2500 and 1000 are scaled to EliteMinimum and MateMinimum; that
\* of the cull is not given and is any value.
EliteMinimum == 2
MateMinimum == 1
Dropped == -1         \* the child is not inserted

mutate_some_agents_selection(preferred_minimum) ==
    [selection_type |-> "RandomAny", proportion |-> [num |-> 1, den |-> 10],
     preferred_minimum |-> preferred_minimum]

mate_alpha_agents_selection(preferred_minimum) ==
    [selection_type |-> "HighestScore", proportion |-> [num |-> 1, den |-> 5],
     preferred_minimum |-> preferred_minimum]

mate_some_agents_selection(preferred_minimum) ==
    [selection_type |-> "RandomAny", proportion |-> [num |-> 1, den |-> 2],
     preferred_minimum |-> preferred_minimum]

\* The children that are inserted, each with its slot
Placed(children, places) ==
    LET Kept(i) == places[i] # Dropped
        kept == SelectSeq([i \in 1..Len(children) |-> i], Kept)
    IN  [n \in 1..Len(kept) |-> <<places[kept[n]], children[kept[n]]>>]

mutate_some_agents(p, selected, draws, places) ==
    LET children == get_mutated_agents(selected, draws)
        inserted == Placed(children, places)
    IN  Outcome(FALSE, InsertChildren(p, inserted), provider_new([a \in FitAgents |-> 0], 0),
                selected, <<>>, <<>>, children, <<>>, <<>>, inserted)

mate_agents(p, selected, pair_draws, draws, places) ==
    LET pairs == create_random_pairs(selected, pair_draws)
        children == [i \in 1..Len(pairs) |-> crossover(pairs[i][1], pairs[i][2], draws[i])]
        inserted == Placed(children, places)
    IN  Outcome(FALSE, InsertChildren(p, inserted), provider_new([a \in FitAgents |-> 0], 0),
                selected, candidate_pairs(selected, pair_draws), pairs, children,
                <<>>, <<>>, inserted)

CycleSlots == {0, 1, 2}    \* the slots a child can be given
PlaceDraws(n) == [1..n -> CycleSlots \cup {Dropped}]

IterMutate ==
    /\ ~aborted
    /\ run.name \in {"none", "merge", "cull_bottom"}
    /\ LET sel == mutate_some_agents_selection(1)
       IN  \E selected \in selection_agents(sel, population).subsets :
              \E draws \in MutationDraws(Cardinality(DOMAIN selected)),
                 places \in PlaceDraws(Cardinality(DOMAIN selected)) :
                  CycleStep("mutate_some_agents", run.phase, run.top, sel,
                      mutate_some_agents(population, selected, draws, places).population)

Mate(name, sel) ==
    \E selected \in selection_agents(sel, population).subsets :
        \E pair_draws \in PairDraws(Cardinality(DOMAIN selected)) :
            LET made == Len(create_random_pairs(selected, pair_draws))
            IN  \E draws \in MutationDraws(made), places \in PlaceDraws(made) :
                    CycleStep(name, run.phase, run.top, sel,
                        mate_agents(population, selected, pair_draws, draws,
                                    places).population)

IterElite ==
    /\ ~aborted
    /\ run.name = "mutate_some_agents"
    /\ Mate("mate_alpha_agents", mate_alpha_agents_selection(EliteMinimum))

IterMate ==
    /\ ~aborted
    /\ run.name = "mate_alpha_agents"
    /\ Mate("mate_some_agents", mate_some_agents_selection(MateMinimum))

IterCull ==
    /\ ~aborted
    /\ run.name = "mate_some_agents"
    /\ \E preferred_minimum \in 0..MaxSelMin :
          CycleStep("cull_bottom", run.phase, run.top,
                    LowestSelection([num |-> 1, den |-> 50], preferred_minimum),
                    cull_lowest_agents(population, [num |-> 1, den |-> 50],
                                       preferred_minimum))

\* One bucket of a merge round: a fresh population takes the agents of
\* sub_populations_per_level populations, popped one after the other; the
\* population at hand is one of them, the others are leaves.
RECURSIVE MergeFrom(_, _)
MergeFrom(p, subs) ==
    IF subs = <<>> THEN p
    ELSE MergeFrom(insert_all(p, Head(subs)), Tail(subs))

MaxOf(S) == IF S = {} THEN -1 ELSE -Min({-x : x \in S})

MergeBucket ==
    /\ ~aborted
    /\ run.name \in {"none", "cull_bottom", "merge_cull"}
    /\ run.phase = "leaf"
    /\ \E earlier, later \in UNION {[1..n -> OpLeaves] : n \in 0..(MaxMergeBranch - 1)} :
          /\ Len(earlier) + Len(later) < MaxMergeBranch
          /\ LET subs == earlier \o <<population>> \o later
             IN  CycleStep("merge", "merged",
                           MaxOf({run.top} \cup {Top(subs[i]) : i \in 1..Len(subs)}),
                           NoSelection, MergeFrom(new_empty(FALSE), subs))

\* cull_lowest_agents(run_iterations(population, ..), 0.75) ends the bucket
MergeCull ==
    /\ ~aborted
    /\ run.phase = "merged"
    /\ run.name \in {"merge", "cull_bottom"}
    /\ \E preferred_minimum \in 0..MaxSelMin :
          CycleStep("merge_cull", "leaf", run.top,
                    LowestSelection([num |-> 3, den |-> 4], preferred_minimum),
                    cull_lowest_agents(population, [num |-> 3, den |-> 4],
                                       preferred_minimum))

NextOps ==
    \/ \E sel \in OpSelections, pr \in OpProviders : RunMutate(sel, pr)
    \/ \E sel \in OpSelections, pr \in OpProviders : RunCrossover(sel, pr)
    \/ \E sel \in OpSelections : RunCullAgents(sel)
    \/ \E sel \in OpSelections : RunCullLowest(sel)
    \/ IterMutate
    \/ IterElite
    \/ IterMate
    \/ IterCull
    \/ MergeBucket
    \/ MergeCull

SpecOps == InitOps /\ [][NextOps]_vars

\* ------------------------------------------------------------------------
\* Properties of the Population
\* ------------------------------------------------------------------------
Present(p) == {p.agents[s] : s \in DOMAIN p.agents}

\* C1: in a unique-mode population no two agents present at different
\* slots have the same content hash, after any sequence of seeding, insert,
\* remove and cull_all_below steps.
UniqueNoSharedHash ==
    population.unique_agents =>
        \A s1, s2 \in DOMAIN population.agents :
            s1 # s2 => get_hash(population.agents[s1]) # get_hash(population.agents[s2])

\* A duplicate of an agent present at another slot was offered to a
\* unique-mode population holding at least two agents.
UniqueDuplicateOffered ==
    /\ population.unique_agents
    /\ op.name = "insert"
    /\ len(population) >= 2
    /\ \E s \in DOMAIN population.agents :
           s # op.slot /\ population.agents[s] = op.agent

\* C2: in a unique-mode population the register is exactly the set of the
\* content hashes of the agents present: its size is the agent count and
\* will_accept(a) is false exactly when an agent with a's content is present.
RegisterInSync ==
    population.unique_agents =>
        /\ population.register = {get_hash(a) : a \in Present(population)}
        /\ Cardinality(population.register) = len(population)
        /\ \A a \in Agents :
               (will_accept(population, a) = FALSE) <=> (a \in Present(population))

\* C3: insert(slot, agent) leaves the whole population unchanged when
\* uniqueness is enabled and the hash is registered; otherwise the slot
\* holds the new agent, every other slot keeps its occupant and len grows
\* by one exactly when the slot was free.
InsertFrameEffect ==
    [][op'.name = "insert" =>
        LET slot == op'.slot
            agent == op'.agent
            old == population.agents
            new == population'.agents
        IN  IF population.unique_agents /\ get_hash(agent) \in population.register
            THEN population' = population
            ELSE /\ slot \in DOMAIN new
                 /\ new[slot] = agent
                 /\ DOMAIN new = (DOMAIN old) \cup {slot}
                 /\ \A t \in (DOMAIN old) \ {slot} : new[t] = old[t]
                 /\ len(population') =
                        IF slot \in DOMAIN old THEN len(population)
                        ELSE len(population) + 1]_vars

\* In non-unique mode an agent whose content is already present elsewhere
\* has been inserted onto an occupied slot.
DuplicateInsertedNonUnique ==
    /\ ~population.unique_agents
    /\ op.name = "insert"
    /\ op.before = len(population)
    /\ get(population, op.slot) = op.agent
    /\ \E s \in DOMAIN population.agents :
           s # op.slot /\ population.agents[s] = op.agent

\* C4: remove(slot) on an occupied slot returns the occupant, decreases len
\* by one, leaves the other slots unchanged and unregisters the agent, so
\* that inserting it again at a free slot is accepted and restores len;
\* on an unoccupied slot it returns None and changes nothing.
RemoveThenReinsert ==
    [][op'.name = "remove" =>
        LET slot == op'.slot
            old == population.agents
            new == population'.agents
        IN  IF slot \in DOMAIN old
            THEN /\ ret' = old[slot]
                 /\ len(population') = len(population) - 1
                 /\ DOMAIN new = (DOMAIN old) \ {slot}
                 /\ \A t \in DOMAIN new : new[t] = old[t]
                 /\ will_accept(population', ret')
                 /\ \A free \in Slots \ DOMAIN new :
                        LET again == insert(population', free, ret')
                        IN  /\ get(again, free) = ret'
                            /\ len(again) = len(population)
            ELSE /\ ret' = NoAgent
                 /\ population' = population]_vars

\* An agent has just been removed from a unique-mode population.
RemovedFromUnique ==
    /\ population.unique_agents
    /\ op.name = "remove"
    /\ ret # NoAgent
    /\ op.before = len(population) + 1
    /\ len(population) >= 1

\* C5: cull_all_below(s) removes exactly the agents at slots < s and keeps
\* unchanged every agent at a slot >= s; in unique mode clones of the
\* removed agents are accepted afterwards, clones of survivors rejected.
CullAllBelowExact ==
    [][op'.name = "cull_all_below" =>
        LET s == op'.slot
            old == population.agents
            new == population'.agents
        IN  /\ DOMAIN new = {t \in DOMAIN old : t >= s}
            /\ \A t \in DOMAIN new : new[t] = old[t]
            /\ population.unique_agents =>
                   /\ \A t \in DOMAIN old : will_accept(population', old[t]) <=> (t < s)
                   /\ \A t \in DOMAIN new : ~will_accept(population', new[t])]_vars

\* A cull in unique mode at an occupied slot that removed something and
\* kept something.
CullSplitUnique ==
    /\ population.unique_agents
    /\ op.name = "cull_all_below"
    /\ op.slot \in DOMAIN population.agents
    /\ op.before > len(population)
    /\ len(population) >= 2

\* C6: no Population operation fails or aborts in any reachable state, and
\* a lookup of an unoccupied slot returns an empty result.
NoOperationAborts ==
    /\ aborted = FALSE
    /\ (op.name = "get" /\ op.slot \notin DOMAIN population.agents) => ret = NoAgent

\* C7: seeding with uniqueness off and start_size = n yields a population
\* that holds exactly n agents (len, get_agents and get_scores of size n).
SeedingYieldsStartSize ==
    (op.name = "new" /\ seeded = start_size /\ ~population.unique_agents) =>
        /\ len(population) = start_size
        /\ Cardinality(DOMAIN get_agents(population)) = start_size
        /\ Len(get_scores(population)) = start_size

\* C18: in the seeding loop the collision fallback of a candidate with a
\* non-negative nominal slot ends after at most nominal + 1 iterations, and
\* the agent is stored at a slot that is not negative, not above the
\* nominal slot, and either free at insertion time or slot 0.
SeedFallbackBounded ==
    [][(op'.name = "new" /\ seeded' = seeded + 1
            /\ will_accept(population, op'.agent)) =>
        LET nominal == ret'
            slot == op'.slot
        IN  /\ nominal >= 0
            /\ FallbackIterations(population, nominal) <= nominal + 1
            /\ slot >= 0
            /\ slot <= nominal
            /\ slot = 0 \/ ~contains_score(population, slot)
            /\ get(population', slot) = op'.agent
            /\ \A x \in (slot + 1)..nominal : contains_score(population, x)]_vars

\* A seeded candidate has fallen from its occupied nominal slot 1 down to
\* slot 0, which was occupied as well, and replaced the agent there.
SeedFellToOccupiedZero ==
    /\ op.name = "new"
    /\ seeded = 3
    /\ ret = 1
    /\ op.slot = 0
    /\ op.before = 2
    /\ len(population) = 2

\* ------------------------------------------------------------------------
\* Properties of rate_to_number and Selection
\* ------------------------------------------------------------------------
\* floor(population * rate), from the definition of floor
FloorOfProduct(size, rate) ==
    CHOOSE k \in 0..size :
        /\ k * rate.den <= size * rate.num
        /\ size * rate.num < (k + 1) * rate.den

Max(a, b) == IF a >= b THEN a ELSE b

IsRate(r, n, d) == r.num * d = n * r.den

RankSelectionExact ==
    (op.name = "agents" /\ ~aborted
        /\ selection.selection_type \in {"HighestScore", "LowestScore"}) =>
        LET c == count(selection, population)
            all == DOMAIN population.agents
            chosen == DOMAIN subset
        IN  /\ chosen \subseteq all
            /\ Cardinality(chosen) = c
            /\ \A k \in chosen : subset[k] = population.agents[k]
            /\ selection.selection_type = "HighestScore" =>
                   \A x \in chosen, y \in all \ chosen : x > y
            /\ selection.selection_type = "LowestScore" =>
                   \A x \in chosen, y \in all \ chosen : x < y

\* A HighestScore selection picked some, but not all, of the agents.
HighestPickedProperPart ==
    /\ op.name = "agents"
    /\ selection.selection_type = "HighestScore"
    /\ Cardinality(DOMAIN subset) >= 1
    /\ Cardinality(DOMAIN subset) < len(population)

\* C10: a RandomAny Selection returns exactly Selection.count(population)
\* agents of the population, for every outcome of the random draws.
RandomAnyExactCount ==
    (op.name = "agents" /\ selection.selection_type = "RandomAny") =>
        /\ Cardinality(DOMAIN subset) = count(selection, population)
        /\ \A k \in DOMAIN subset : subset[k] = get(population, k)

\* ------------------------------------------------------------------------
\* Properties of Cull
\* ------------------------------------------------------------------------
\* C11: a lowest-score cull with c = rate_to_number(len, rate, min) leaves
\* the population unchanged when c >= len and otherwise removes exactly the
\* c lowest-slot agents and keeps the other len - c unchanged, so a
\* non-empty population is never emptied and a 75% cull of n agents leaves
\* n - floor(0.75*n); Operation Cull with a LowestScore Selection and
\* cull_lowest_agents give the same population.
LowestCullExact ==
    [][(op'.name = "cull_lowest_agents"
            \/ (op'.name = "cull_agents" /\ selection.selection_type = "LowestScore")) =>
        LET n == len(population)
            rate == selection.proportion
            min == selection.preferred_minimum
            c == rate_to_number(n, rate, min)
            old == population.agents
            new == population'.agents
            gone == (DOMAIN old) \ (DOMAIN new)
            lowest == [selection EXCEPT !.selection_type = "LowestScore"]
        IN  /\ ~aborted'
            /\ c >= n => population' = population
            /\ c < n =>
                  /\ Cardinality(gone) = c
                  /\ \A x \in gone, y \in DOMAIN new : x < y
                  /\ DOMAIN new \subseteq DOMAIN old
                  /\ \A y \in DOMAIN new : new[y] = old[y]
                  /\ len(population') = n - c
            /\ n > 0 => len(population') > 0
            /\ (IsRate(rate, 3, 4) /\ min = 0) =>
                  len(population') = n - FloorOfProduct(n, rate)
            /\ cull_agents(population, lowest) =
                  Returned(cull_lowest_agents(population, rate, min))]_vars

\* Operation Cull with a LowestScore Selection of 75% has cut a
\* population of three agents down to one.
LowestCullThreeToOne ==
    /\ op.name = "cull_agents"
    /\ selection.selection_type = "LowestScore"
    /\ IsRate(selection.proportion, 3, 4)
    /\ op.before = 3
    /\ len(population) = 1

\* C12 as claimed: a Cull operation whose Selection is RandomAny aborts the
\* run for every population and every proportion and preferred minimum.
RandomCullAlwaysAborts ==
    (op.name = "cull_agents" /\ selection.selection_type = "RandomAny") => aborted

\* C12 amended: a Cull operation whose Selection is RandomAny aborts the
\* run exactly when count < len; when count >= len it returns the
\* population unchanged.
RandomCullAbortsBelowLen ==
    [][(op'.name = "cull_agents" /\ selection.selection_type = "RandomAny") =>
        /\ aborted' <=> (count(selection, population) < len(population))
        /\ population' = population]_vars

\* A RandomAny cull has aborted on a population of two agents.
RandomCullAborted ==
    /\ op.name = "cull_agents"
    /\ selection.selection_type = "RandomAny"
    /\ aborted
    /\ len(population) = 2

\* C24: a Cull operation with a HighestScore Selection and count c < len
\* removes exactly the c highest-slot agents, which are the agents the same
\* Selection's agents() designates, and keeps the other len - c unchanged.
HighestCullExact ==
    [][(/\ op'.name = "cull_agents"
        /\ selection.selection_type = "HighestScore"
        /\ count(selection, population) < len(population)) =>
        LET n == len(population)
            c == count(selection, population)
            old == population.agents
            new == population'.agents
            gone == (DOMAIN old) \ (DOMAIN new)
            designated == get_highest_scored_agents(get_agents(population),
                              selection.proportion, selection.preferred_minimum)
        IN  /\ ~aborted'
            /\ Cardinality(gone) = c
            /\ gone = DOMAIN designated
            /\ \A x \in gone, y \in DOMAIN new : y < x
            /\ DOMAIN new \subseteq DOMAIN old
            /\ \A y \in DOMAIN new : new[y] = old[y]
            /\ len(population') = n - c]_vars

\* ------------------------------------------------------------------------
\* Properties of the GeneralScoreProvider
\* ------------------------------------------------------------------------
\* seq[1] + .. + seq[k]
RECURSIVE SumTo(_, _)
SumTo(seq, k) == IF k = 0 THEN 0 ELSE seq[k] + SumTo(seq, k - 1)

\* The subsequence of agents made of the elements in keep
RECURSIVE Kept(_, _)
Kept(agents, keep) ==
    IF agents = <<>> THEN <<>>
    ELSE IF Head(agents) \in keep THEN <<Head(agents)>> \o Kept(Tail(agents), keep)
    ELSE Kept(Tail(agents), keep)

\* C13: evaluate_scores returns, in input order, exactly the input agents
\* whose hash was cached before or whose scoring succeeds; an agent whose
\* scoring fails is dropped without a panic and without a cache entry; a
\* cached agent is kept without the scoring function being invoked.
EvaluateScoresKeepsScored ==
    [][fit'.name = "evaluate_scores" =>
        LET before == provider.score_cache
            f == provider.scoring_function
            Survives(a) == get_hash(a) \in DOMAIN before \/ f[a] # ScoreErr
            Invoke(a) == get_hash(a) \notin DOMAIN before
        IN  /\ fit'.cached = Kept(fit'.agents, {a \in FitAgents : Survives(a)})
            /\ ~aborted'
            /\ \A i \in DOMAIN fit'.agents :
                  LET a == fit'.agents[i]
                  IN  /\ (~Survives(a)) =>
                            get_hash(a) \notin DOMAIN provider'.score_cache
                      /\ get_hash(a) \in DOMAIN before =>
                            \A j \in DOMAIN fit'.invoked : fit'.invoked[j] # a]_vars

\* evaluate_scores was given a failing agent and then a scorable one: it
\* invoked the scoring function on both, dropped the first and kept and
\* cached the second.
EvaluateDroppedAndKept ==
    /\ fit.name = "evaluate_scores"
    /\ Len(fit.agents) = 2
    /\ provider.scoring_function[fit.agents[1]] = ScoreErr
    /\ fit.cached = <<fit.agents[2]>>
    /\ fit.invoked = fit.agents
    /\ DOMAIN provider.score_cache = {get_hash(fit.agents[2])}
    /\ ~aborted

\* C14: get_score for an agent with true fitness f, provider offset o >= 1
\* and drawn jitter j in [0, 2*o) returns max(0, f + j - o), which is not
\* negative, not below f - o and not above f + o - 1, whether the fitness
\* came from the cache or was computed in the call.
GetScoreIsFlooredSum ==
    (/\ fit.name = "get_score"
     /\ provider.offset >= 1
     /\ provider.scoring_function[fit.agents[1]] # ScoreErr) =>
        LET f == provider.scoring_function[fit.agents[1]]
            o == provider.offset
            j == fit.offset
        IN  /\ ~aborted
            /\ j \in 0..(2 * o - 1)
            /\ fit.score = Max(0, f + j - o)
            /\ fit.score >= 0
            /\ fit.score >= f - o
            /\ fit.score <= f + o - 1

\* C19: a cache entry, once written, is never changed or removed; the
\* scoring function is invoked at most once on an agent whose scoring
\* succeeds; a get_score on a cached agent uses the cached fitness, so two
\* calls on one agent differ only by their jitter.
CacheWrittenOnce ==
    [][/\ \A a \in FitAgents :
            provider.scoring_function[a] # ScoreErr => invocations'[a] <= 1
       /\ \A h \in DOMAIN provider.score_cache :
            /\ h \in DOMAIN provider'.score_cache
            /\ provider'.score_cache[h] = provider.score_cache[h]
       /\ provider'.scoring_function = provider.scoring_function
       /\ (fit'.name = "get_score" /\ fit'.was_cached /\ ~aborted') =>
            /\ fit'.invoked = <<>>
            /\ fit'.score = with_offset(provider,
                                provider.score_cache[get_hash(fit'.agents[1])],
                                fit'.offset, overflow_checks)]_vars

\* A second get_score on an agent was answered from the cache with a
\* different jitter, after one invocation of the scoring function.
SecondGetScoreFromCache ==
    /\ fit.name = "get_score"
    /\ fit.was_cached
    /\ ~aborted
    /\ fit.offset = 1
    /\ fit.score = provider.score_cache[get_hash(fit.agents[1])] + 1 - provider.offset
    /\ fit.score > 0
    /\ invocations[fit.agents[1]] = 1

\* ------------------------------------------------------------------------
\* Properties of the multi-level evolution
\* ------------------------------------------------------------------------
LeavesOf(id, number) == {<<id, k>> : k \in 0..(number - 1)}

\* The populations are made from disjoint sets of size leaves each, which
\* together are all the leaves
Partition(populations, all, size) ==
    /\ \A i \in DOMAIN populations : Cardinality(populations[i].leaves) = size
    /\ \A i, j \in DOMAIN populations :
          i # j => populations[i].leaves \cap populations[j].leaves = {}
    /\ UNION {populations[i].leaves : i \in DOMAIN populations} = all

StructureOf(proc) ==
    LET levels == proc.levels
        s == proc.sub_populations_per_level
        all == LeavesOf(proc.id, Pow(s, levels))
    IN  /\ proc.pc # "panicked"
        /\ proc.pc = "round" =>
              /\ Len(proc.populations) = Pow(s, proc.level)
              /\ proc.rounds = levels - proc.level
              /\ Partition(proc.populations, all, Pow(s, levels - proc.level))
        /\ (proc.pc = "bucket" /\ proc.made = proc.number_of_new_populations) =>
              /\ proc.populations = <<>>
              /\ Len(proc.new_populations) = Pow(s, proc.level)
        /\ (proc.pc = "pop" /\ proc.popped = s) => Len(proc.consumed) = s
        /\ proc.pc = "done" =>
              /\ proc.rounds = levels
              /\ proc.populations = <<>>
              /\ proc.result.leaves = all
              /\ levels = 0 => proc.result.leaves = {<<proc.id, 0>>}

\* C15: the sequential multi-level evolution with levels = L and branching
\* factor s seeds s^L leaf populations; each of the L merge rounds consumes
\* every population of the round before exactly once, in buckets of s, and
\* makes s^level populations; it never pops from an empty list; at the end
\* one population, made from every leaf, is left and returned; for L = 0 no
\* round runs and the one seeded population is returned.
MultiLevelStructure == StructureOf(main)

\* A run with two levels of two sub-populations has returned a population
\* made from its four leaves after two rounds.
TwoLevelsOfTwoReturned ==
    /\ main.pc = "done"
    /\ main.levels = 2
    /\ main.sub_populations_per_level = 2
    /\ main.rounds = 2
    /\ Cardinality(main.result.leaves) = 4
    /\ len(main.result.pop) = 1

AllWorkersDone ==
    /\ Len(workers) = main.sub_populations_per_level
    /\ \A i \in DOMAIN workers : workers[i].pc = "done"

SomeWorkerPanicked == \E i \in DOMAIN workers : workers[i].pc = "panicked"

\* C16: the thread-parallel evolution starts exactly
\* sub_populations_per_level workers; the merge round of the calling thread
\* starts only after every worker has finished and its population has been
\* collected; if every worker ends normally the run eventually returns one
\* population, under every interleaving.
JoinBarrierThenMerge ==
    /\ [](/\ Len(workers) = main.spawned
          /\ main.spawned <= main.sub_populations_per_level
          /\ main.pc # "spawn" => Len(workers) = main.sub_populations_per_level
          /\ main.pc \in MergePcs \cup {"done"} =>
                /\ AllWorkersDone
                /\ main.joined = main.sub_populations_per_level
                /\ main.pc = "round" /\ main.rounds = 0 =>
                      main.populations = [i \in DOMAIN workers |-> workers[i].result])
    /\ (AllWorkersDone ~>
            (/\ main.pc = "done"
             /\ main.populations = <<>>
             /\ main.result.leaves =
                    UNION {workers[i].result.leaves : i \in DOMAIN workers}))

\* The calling thread has returned the population merged from the
\* populations of two workers, each made from one leaf.
ThreadedRunReturned ==
    /\ main.pc = "done"
    /\ Len(workers) = 2
    /\ main.levels = 1
    /\ main.result.leaves = LeavesOf(1, 1) \cup LeavesOf(2, 1)
    /\ main.initial_population_size = 1
    /\ len(main.result.pop) = 1

\* C17: if any worker of the thread-parallel evolution panics, the whole
\* run fails: no merge round runs on the populations of the other workers
\* and no population is returned, whichever worker it is and whatever the
\* others do.
WorkerPanicIsFatal ==
    /\ [](SomeWorkerPanicked =>
            /\ main.pc \notin MergePcs \cup {"done"}
            /\ main.result = NoPopulation)
    /\ (SomeWorkerPanicked ~> main.pc = "panicked")

\* The calling thread has panicked on the join of the second worker after
\* it had collected the population of the first.
SecondWorkerPanicCaught ==
    /\ main.pc = "panicked"
    /\ Len(workers) = 2
    /\ workers[1].pc = "done"
    /\ workers[2].pc = "panicked"
    /\ main.joined = 1
    /\ Len(main.populations) = 1

\* C25: for every level count L >= 0 and branching factor s the
\* thread-parallel evolution has the structure of the sequential one: it
\* seeds s^L leaf populations in all, runs L - 1 merge rounds inside each
\* branch and one final round, and returns one population; for L = 0 it
\* returns one seeded population without merging; and L - 1 on the
\* unsigned level count does not underflow or abort.
ThreadedLikeSequential ==
    LET levels == main.levels
        s == main.sub_populations_per_level
    IN  /\ \A i \in DOMAIN workers :
              workers[i].pc # "start" =>
                  /\ workers[i].levels = levels - 1
                  /\ workers[i].levels >= 0
        /\ main.pc = "done" =>
              /\ Cardinality(main.result.leaves) = Pow(s, levels)
              /\ \A i \in DOMAIN workers : workers[i].rounds = levels - 1
              /\ main.rounds = IF levels = 0 THEN 0 ELSE 1

\* C20: in a merge round the merged population, before the iteration
\* cycle that follows, has as slots the union of the slots of the
\* sub_populations_per_level merged sub-populations; at a slot several of
\* them hold, it has the agent of the one merged last, so its size is at
\* most the sum of their sizes; agents of equal content are all kept, the
\* merged population being non-unique.
MergeIsLastWinsUnion ==
    (main.pc = "pop" /\ main.popped = main.sub_populations_per_level) =>
        LET merged == main.population.pop
            subs == [i \in DOMAIN main.consumed |-> main.consumed[i].pop]
            Holds(slot) == {i \in DOMAIN subs : slot \in DOMAIN subs[i].agents}
            sizes == [i \in DOMAIN subs |-> len(subs[i])]
        IN  /\ Len(subs) = main.sub_populations_per_level
            /\ DOMAIN merged.agents = UNION {DOMAIN subs[i].agents : i \in DOMAIN subs}
            /\ \A slot \in DOMAIN merged.agents :
                  \E i \in Holds(slot) :
                      /\ \A j \in Holds(slot) : j <= i
                      /\ merged.agents[slot] = subs[i].agents[slot]
            /\ \A k \in 0..Len(subs) :
                  k = Len(subs) => len(merged) <= SumTo(sizes, k)
            /\ ~merged.unique_agents
            /\ merged.register = {}

\* Two sub-populations sharing slot 0 were merged: slot 0 has the agent of
\* the second, which is also the agent the first brought at slot 1.
MergeOverwroteAndKeptDuplicate ==
    /\ main.pc = "pop"
    /\ main.popped = 2
    /\ main.sub_populations_per_level = 2
    /\ main.consumed[1].pop.agents = (0 :> 1) @@ (1 :> 2)
    /\ main.consumed[2].pop.agents = (0 :> 2)
    /\ main.population.pop.agents = (0 :> 2) @@ (1 :> 2)

\* ------------------------------------------------------------------------
\* Properties of mutate, crossover and the iteration cycle
\* ------------------------------------------------------------------------
Contents(m) == {m[x] : x \in DOMAIN m}

Operators ==
    {"mutate_agents", "crossover_agents", "cull_agents", "cull_lowest_agents",
     "mutate_some_agents", "mate_alpha_agents", "mate_some_agents", "cull_bottom",
     "merge_cull"}

\* C22: on an empty population every Selection kind gives no agent, and
\* mutate, crossover, cull with any Selection, cull_lowest_agents and each
\* step of the iteration cycle return the empty population without
\* aborting.
EmptyIsInert ==
    [][(DOMAIN population.agents = {} /\ run'.name \in Operators) =>
          /\ \A sel \in OpSelections :
                selection_agents(sel, population) =
                    [panicked |-> FALSE, subsets |-> {EmptyMap}]
          /\ ~aborted'
          /\ population' = population
          /\ run'.selected = EmptyMap
          /\ run'.children = <<>>
          /\ run'.inserted = <<>>]_vars

\* An iteration cycle has run to its end on an empty population
EmptyCycleDone ==
    /\ run.name = "cull_bottom"
    /\ DOMAIN population.agents = {}
    /\ ~aborted

\* The children of the last operation whose scoring fails
Failing(children) ==
    {i \in 1..Len(children) : run.provider.scoring_function[children[i]] = ScoreErr}

\* C23: in mutate_agents and crossover_agents a child whose scoring fails
\* is dropped and not inserted, every child inserted has its true fitness
\* in the cache, get_score is called only on agents already in the cache
\* and so never invokes the scoring function, and when the operation
\* aborts it is in the arithmetic of get_score and not for a scoring
\* failure; when every child fails to score the population is unchanged.
ScoringFailureDropsChild ==
    run.name \in {"mutate_agents", "crossover_agents"} =>
        /\ \A i \in 1..Len(run.calls) :
              /\ run.calls[i].was_cached
              /\ run.calls[i].invoked = <<>>
              /\ run.calls[i].score # ScoreErr
        /\ \A i \in Failing(run.children) :
              /\ run.children[i] \notin SeqRange(run.cached)
              /\ \A n \in 1..Len(run.inserted) : run.inserted[n][2] # run.children[i]
        /\ \A n \in 1..Len(run.inserted) :
              LET agent == run.inserted[n][2]
              IN  /\ get_hash(agent) \in DOMAIN provider.score_cache
                  /\ provider.score_cache[get_hash(agent)] =
                        run.provider.scoring_function[agent]
                  /\ agent \in SeqRange(run.children)
        /\ aborted => (run.calls # <<>> /\ Last(run.calls).score = Overflow)
        /\ Failing(run.children) = 1..Len(run.children) =>
              (~aborted /\ population = run.before /\ run.calls = <<>>)

\* Of two mutated clones one failed to score and was dropped, the other
\* was scored from the cache and inserted
MutateDroppedOneInsertedOne ==
    /\ run.name = "mutate_agents"
    /\ Len(run.children) = 2
    /\ Cardinality(Failing(run.children)) = 1
    /\ Len(run.calls) = 1
    /\ Len(run.inserted) = 1
    /\ ~aborted
    /\ population # run.before

CycleSteps == {"mutate_some_agents", "mate_alpha_agents", "mate_some_agents", "cull_bottom"}

\* C26: over each step of an iteration cycle and of a merge round a
\* population that holds an agent still holds one, mutate and the two
\* crossovers do not decrease len, and the highest occupied slot does not
\* decrease; so the highest slot of the population is at least that of
\* every leaf that went into it, taken right after its seeding.
TopNeverDecreases ==
    [][run'.name \in CycleSteps \cup {"merge", "merge_cull"} =>
          /\ DOMAIN population.agents # {} => DOMAIN population'.agents # {}
          /\ run'.name \in CycleSteps \ {"cull_bottom"} =>
                len(population') >= len(population)
          /\ Top(population') >= Top(population)
          /\ run'.top >= run.top
          /\ Top(population') >= run'.top
          /\ ~aborted']_vars

\* A merged population was culled down to an agent that a cycle had put
\* above the highest slot of the leaves
MergedCulledToNewTop ==
    /\ run.name = "merge_cull"
    /\ run.top = 1
    /\ DOMAIN population.agents = {2}

====
